---- MODULE Spec2Model ----
(***************************************************************************)
(* Range-check gadgets of halo2_learning: the small polynomial range check *)
(* (fibonacci/src/range_check/ex1.rs), the combined range-check / lookup   *)
(* helper with its table (example_circuits/src/range_check/ex2.rs and      *)
(* ex2/table.rs) and the running-sum decomposition                         *)
(* (example_circuits/src/decompose_range_check/ex1.rs).                    *)
(*                                                                         *)
(* A behaviour is one MockProver::run of a test circuit under the V1 floor *)
(* planner: synthesize runs once with every value unknown (shape pass) and *)
(* once with the witness (witness pass).  The prime field is scaled down   *)
(* to P; a Value<F> is <<>> when unknown and <<x>> when known.             *)
(***************************************************************************)
EXTENDS Integers, Sequences, FiniteSets, TLC

\* ------------------------------------------------------------ bounds
MaxK == 2          \* limb widths K = log2(LOOKUP_RANGE) in 1..MaxK
MaxN == 6          \* bit widths num_bits in 0..MaxN
MaxR == 3          \* small-range bounds RANGE in 0..MaxR
MaxBitsLen == 4    \* lebs2ip is applied to every bit sequence up to this length

\* ------------------------------------------------------------ field
\* The field modulus (pasta Fp, scaled down to a 7-bit prime).
P == 127
\* Number of bits to_le_bits() yields for one field element (256 for Fp).
ReprBits == 8
\* Width of u64, the limit of the assertion in lebs2ip.
U64Bits == 64

Field == 0 .. (P - 1)

RECURSIVE Pow2(_)
Pow2(n) == IF n = 0 THEN 1 ELSE 2 * Pow2(n - 1)

FAdd(a, b) == (a + b) % P
FSub(a, b) == (a - b + P) % P
FMul(a, b) == (a * b) % P
\* Assigned::invert followed by evaluate: the inverse, and 0 for 0.
FInv(a) == IF a % P = 0 THEN 0 ELSE CHOOSE x \in 1 .. (P - 1) : (a * x) % P = 1

\* Value<F>
Unknown == << >>
Known(x) == << x >>
IsKnown(val) == Len(val) = 1
\* What the prover reads from a cell: an unassigned or unknown cell reads 0.
Eval(val) == IF IsKnown(val) THEN val[1] ELSE 0

\* ------------------------------------------------------------ u64
\* A u64 is its 64 bits, least significant first (index j+1 holds bit j).
U64Zero == [j \in 1 .. U64Bits |-> FALSE]

\* acc + (1 << i) in u64 arithmetic (i < 64), wrapping at 2^64.
U64AddShl1(acc, i) ==
    LET free == {j \in (i + 1) .. U64Bits : ~acc[j]}
        m == IF free = {} THEN U64Bits + 1
             ELSE CHOOSE j \in free : \A h \in free : j <= h
    IN SubSeq([j \in 1 .. U64Bits |->
                  IF j < i + 1 THEN acc[j]
                  ELSE IF j < m THEN FALSE
                  ELSE IF j = m THEN TRUE
                  ELSE acc[j]], 1, U64Bits)

\* 2^n in the field.
RECURSIVE FPow2(_)
FPow2(n) == IF n = 0 THEN 1 % P ELSE (2 * FPow2(n - 1)) % P

\* F::from(u64): the field element of a u64 (of its bits lo+1 .. hi, halved to keep
\* the evaluation shallow).
RECURSIVE FromU64Bits(_, _, _)
FromU64Bits(w, lo, hi) ==
    IF hi <= lo THEN 0
    ELSE IF hi = lo + 1 THEN (IF w[hi] THEN FPow2(lo) ELSE 0)
    ELSE LET mid == (lo + hi) \div 2
         IN (FromU64Bits(w, lo, mid) + FromU64Bits(w, mid, hi)) % P
FromU64(w) == FromU64Bits(w, 0, U64Bits)

\* ------------------------------------------------------------ lebs2ip
\* The fold of lebs2ip over the positions lo .. hi-1, in order:
\* acc + if *b { 1 << i } else { 0 }.  (The range is halved to keep the evaluation
\* shallow; Len(left) is read so that the first half is computed before the second.)
RECURSIVE lebs2ip_fold(_, _, _, _)
lebs2ip_fold(b, lo, hi, acc) ==
    IF hi <= lo THEN acc
    ELSE IF hi = lo + 1 THEN (IF b[hi] THEN U64AddShl1(acc, lo) ELSE acc)
    ELSE LET mid == (lo + hi) \div 2
             left == lebs2ip_fold(b, lo, mid, acc)
         IN IF Len(left) = U64Bits THEN lebs2ip_fold(b, mid, hi, left) ELSE left

\* The fold with every bit shifted one position too far (1 << (i + 1)).
lebs2ip_shifted(b) ==
    IF Len(b) > U64Bits
    THEN [panicked |-> TRUE, val |-> U64Zero]
    ELSE [panicked |-> FALSE,
          val |-> lebs2ip_fold(<< FALSE >> \o b, 1, Len(b) + 1, U64Zero)]

\* fn lebs2ip(bits: &[bool]) -> u64
lebs2ip(b) ==
    IF Len(b) > U64Bits
    THEN [panicked |-> TRUE, val |-> U64Zero]
    ELSE [panicked |-> FALSE, val |-> lebs2ip_fold(b, 0, Len(b), U64Zero)]

\* ------------------------------------------------------------ running sum
\* log2_ceil(LOOKUP_RANGE as u64)
log2_ceil(n) == CHOOSE k \in 0 .. U64Bits : Pow2(k) >= n /\ (k = 0 \/ Pow2(k - 1) < n)

\* value.evaluate().to_le_bits(): the canonical integer, least significant bit first.
to_le_bits(x) == [j \in 1 .. ReprBits |-> (x \div Pow2(j - 1)) % 2 = 1]

\* .take(n)
Take(s, n) == SubSeq(s, 1, IF n < Len(s) THEN n ELSE Len(s))

\* slice.chunks(k): consecutive pieces of k elements, the last one maybe shorter.
RECURSIVE chunks(_, _)
chunks(s, k) ==
    IF Len(s) = 0 THEN << >>
    ELSE IF Len(s) <= k THEN << s >>
    ELSE << SubSeq(s, 1, k) >> \o chunks(SubSeq(s, k + 1, Len(s)), k)

\* The loop of compute_running_sum: z = (z - chunk) * (2^K)^-1, pushed each time.
RECURSIVE running_sum_loop(_, _, _)
running_sum_loop(z, cs, k) ==
    IF Len(cs) = 0 THEN << >>
    ELSE LET chunk == FromU64(lebs2ip(Head(cs)).val)
             zn == FMul(FSub(z, chunk), FInv(Pow2(k) % P))
         IN << zn >> \o running_sum_loop(zn, Tail(cs), k)

\* The running sum computed from the truncated integer instead of the field element.
compute_running_sum_truncated(x, n, k) ==
    LET low == x % Pow2(IF n < ReprBits THEN n ELSE ReprBits)
        rs == running_sum_loop(low, chunks(Take(to_le_bits(x), n), k), k)
    IN [panicked |-> Len(rs) # n \div k, val |-> rs]

\* The running sum with the scaling by 2^-K left out.
RECURSIVE unscaled_loop(_, _)
unscaled_loop(z, cs) ==
    IF Len(cs) = 0 THEN << >>
    ELSE LET zn == FSub(z, FromU64(lebs2ip(Head(cs)).val))
         IN << zn >> \o unscaled_loop(zn, Tail(cs))
compute_running_sum_unscaled(x, n, k) ==
    LET rs == unscaled_loop(x, chunks(Take(to_le_bits(x), n), k))
    IN [panicked |-> Len(rs) # n \div k, val |-> rs]

\* fn compute_running_sum(value, num_bits, lookup_num_bits) -> Vec<Assigned<F>>
\* (the chunk width the body names LOOKUP_NUM_BITS is the parameter lookup_num_bits)
compute_running_sum(x, n, k) ==
    LET rs == running_sum_loop(x, chunks(Take(to_le_bits(x), n), k), k)
    IN [panicked |-> Len(rs) # n \div k, val |-> rs]

\* ------------------------------------------------------------ gates and tables
\* The closure range_check of the "Range check" gate: the fold starts from value.
RECURSIVE range_check_fold(_, _, _, _)
range_check_fold(expr, i, range, x) ==
    IF i >= range THEN expr
    ELSE range_check_fold(FMul(expr, FSub(i % P, x)), i + 1, range, x)

\* The gate with the factor for i = range - 1 left out of the product.
range_check_short(range, x) == range_check_fold(x, 0, range - 1, x)

range_check(range, x) == range_check_fold(x, 0, range, x)

\* Constraints::with_selector(q_range_check, [range_check(RANGE, value)])
RangeCheckGate(q, range, x) == FMul(IF q THEN 1 ELSE 0, range_check(range, x))

\* The lookup input of ex2: q_lookup * value.square()
RangeCheckLookupInput(q, x) == FMul(IF q THEN 1 ELSE 0, FMul(x, x))

\* The lookup input without the selector: the chunk on every row.
DecomposeLookupInput_ungated(q, z_curr, z_next, k) ==
    FSub(z_curr, FMul(z_next, Pow2(k) % P))

\* The lookup input of the decomposition: q_decompose * (z_curr - z_next * 2^K)
DecomposeLookupInput(q, z_curr, z_next, k) ==
    FMul(IF q THEN 1 ELSE 0, FSub(z_curr, FMul(z_next, Pow2(k) % P)))

\* The loop of RangeCheckTable::load: the cell written at each offset.
RECURSIVE load_loop(_, _, _)
load_loop(i, offset, range) ==
    IF i >= range THEN << >>
    ELSE << << offset, (i * i) % P >> >> \o load_loop(i + 1, offset + 1, range)

\* The loop with the offset never advanced.
load_rows_same_offset(range) == [j \in 1 .. range |-> << 0, ((j - 1) * (j - 1)) % P >>]

load_rows(range) == load_loop(0, 0, range)

\* The table of the decomposition gadget (RangeTableConfig): row i holds i.
range_table_rows(range) == [j \in 1 .. range |-> << j - 1, j - 1 >>]

\* ------------------------------------------------------------ state
VARIABLES
    circuit,        \* which test circuit (or function) this run is about
    program,        \* the calls of its synthesize, in order
    pc,             \* the next call of program
    pass,           \* "shape" (values unknown) or "witness"
    lookup_range,   \* const LOOKUP_RANGE
    range_bound,    \* const RANGE
    num_bits,       \* MyCircuit.num_bits
    value,          \* MyCircuit.value
    large_value,    \* MyCircuit.large_value
    bits,           \* the argument of lebs2ip
    out,            \* the result of lebs2ip
    table,          \* the table column: offset -> value
    table_loads,    \* calls of load in this pass
    loaded_before,  \* for each gadget assign of this pass, the loads that preceded it
    regions,        \* the names of the regions opened in this pass
    cells,          \* the advice column: <<region, row>> -> Value
    selectors,      \* enabled selectors: <<selector, region, row>>
    copies,         \* copy constraints: <<cell, cell>>
    constants,      \* constant constraints: <<cell, constant>>
    value_cell,     \* the cell returned by the "witness value" region
    running_sum,    \* the local running_sum of DecomposeConfig::assign
    trace,          \* the structural operations of this pass, in order
    shape_trace,    \* those of the finished shape pass
    outcome         \* "running", "ok" or "panic"

vars == << circuit, program, pc, pass, lookup_range, range_bound, num_bits, value,
           large_value, bits, out, table, table_loads, loaded_before, regions, cells,
           selectors, copies, constants, value_cell, running_sum, trace, shape_trace,
           outcome >>

params == << circuit, program, lookup_range, range_bound, num_bits, value,
             large_value, bits >>

NoCell == << 0, 0 >>
EmptyFn == [x \in {} |-> 0]
Put(f, k, v) == [x \in (DOMAIN f) \cup {k} |-> IF x = k THEN v ELSE f[x]]
CellValue(c) == IF c \in DOMAIN cells THEN cells[c] ELSE Unknown

\* Value<F> of a circuit field in the current pass: without_witnesses() drops it.
Witness(x) == IF pass = "witness" THEN Known(x) ELSE Unknown

\* ------------------------------------------------------------ inputs
RECURSIVE BitSeqs(_)
BitSeqs(n) == IF n = 0 THEN {<< >>}
              ELSE BitSeqs(n - 1) \cup [1 .. n -> BOOLEAN]

LongLens == {U64Bits - 1, U64Bits, U64Bits + 1}
LongBitSeqs ==
    UNION {{ [j \in 1 .. n |-> TRUE],
             [j \in 1 .. n |-> FALSE],
             [j \in 1 .. n |-> j % 2 = 0],
             [j \in 1 .. n |-> j = n] } : n \in LongLens}

DecomposeProgram == << "load_range_table", "witness", "decompose" >>
RangeCheckProgram == << "load", "assign_value", "assign_large" >>
SmallProgram == << "assign_small" >>
Lebs2ipProgram == << "lebs2ip" >>

\* Other orders in which a synthesize can call the same gadgets.
OtherPrograms ==
    [decompose |-> { << "witness", "decompose" >>,
                     << "witness", "decompose", "load_range_table" >> },
     range_check |-> { << "assign_value", "assign_large" >>,
                       << "assign_value", "load", "assign_large" >> }]

Start ==
    /\ pc = 1
    /\ out = [panicked |-> FALSE, val |-> U64Zero]
    /\ table = EmptyFn
    /\ table_loads = 0
    /\ loaded_before = << >>
    /\ regions = << >>
    /\ cells = EmptyFn
    /\ selectors = {}
    /\ copies = {}
    /\ constants = {}
    /\ value_cell = NoCell
    /\ running_sum = << >>
    /\ trace = << >>
    /\ shape_trace = << >>
    /\ outcome = "running"

InitDecompose(progs) ==
    /\ circuit = "decompose"
    /\ program \in progs
    /\ pass = "shape"
    /\ lookup_range \in {Pow2(k) : k \in 1 .. MaxK}
    /\ num_bits \in 0 .. MaxN
    /\ value \in Field
    /\ range_bound = 0 /\ large_value = 0 /\ bits = << >>

InitRangeCheck(progs) ==
    /\ circuit = "range_check"
    /\ program \in progs
    /\ pass = "shape"
    /\ lookup_range \in {Pow2(k) : k \in 1 .. MaxK}
    /\ range_bound \in 0 .. MaxR
    /\ value \in (0 .. MaxR) \cup {P - 1}
    /\ large_value \in Field
    /\ num_bits = 0 /\ bits = << >>

InitSmall ==
    /\ circuit = "small"
    /\ program = SmallProgram
    /\ pass = "shape"
    /\ range_bound \in 0 .. MaxR
    /\ value \in Field
    /\ lookup_range = 0 /\ num_bits = 0 /\ large_value = 0 /\ bits = << >>

InitLebs2ip ==
    /\ circuit = "lebs2ip"
    /\ program = Lebs2ipProgram
    /\ pass = "witness"
    /\ bits \in BitSeqs(MaxBitsLen) \cup LongBitSeqs
    /\ lookup_range = 0 /\ range_bound = 0 /\ num_bits = 0
    /\ value = 0 /\ large_value = 0

Init ==
    /\ Start
    /\ \/ InitDecompose({DecomposeProgram})
       \/ InitRangeCheck({RangeCheckProgram})
       \/ InitSmall
       \/ InitLebs2ip

InitAnyOrder ==
    /\ Start
    /\ \/ InitDecompose({DecomposeProgram} \cup OtherPrograms.decompose)
       \/ InitRangeCheck({RangeCheckProgram} \cup OtherPrograms.range_check)
       \/ InitSmall
       \/ InitLebs2ip

\* ------------------------------------------------------------ operations
At(op) == outcome = "running" /\ pc <= Len(program) /\ program[pc] = op

RECURSIVE WriteRows(_, _)
WriteRows(tbl, rows) ==
    IF Len(rows) = 0 THEN tbl
    ELSE WriteRows(Put(tbl, Head(rows)[1], Head(rows)[2]), Tail(rows))

TableOps(rows) == [j \in 1 .. Len(rows) |-> << "table", "table.value", rows[j][1] >>]

\* RangeCheckTable::load (ex2/table.rs): one assign_table writing RANGE cells.
Load ==
    /\ At("load")
    /\ table' = WriteRows(table, load_rows(lookup_range))
    /\ table_loads' = table_loads + 1
    /\ trace' = trace \o TableOps(load_rows(lookup_range))
    /\ pc' = pc + 1
    /\ UNCHANGED << params, pass, out, loaded_before, regions, cells, selectors, copies,
                    constants, value_cell, running_sum, shape_trace, outcome >>

\* config.table.load of the decomposition circuit (RangeTableConfig).
LoadRangeTable ==
    /\ At("load_range_table")
    /\ table' = WriteRows(table, range_table_rows(lookup_range))
    /\ table_loads' = table_loads + 1
    /\ trace' = trace \o TableOps(range_table_rows(lookup_range))
    /\ pc' = pc + 1
    /\ UNCHANGED << params, pass, out, loaded_before, regions, cells, selectors, copies,
                    constants, value_cell, running_sum, shape_trace, outcome >>

\* The "witness value" region of the decomposition circuit's synthesize.
WitnessValue ==
    /\ At("witness")
    /\ LET r == Len(regions) + 1 IN
        /\ regions' = Append(regions, "witness value")
        /\ cells' = Put(cells, << r, 0 >>, Witness(value))
        /\ value_cell' = << r, 0 >>
        /\ trace' = trace \o << << "region", "witness value", 0 >>,
                                << "advice", "running_sum", 0 >> >>
    /\ pc' = pc + 1
    /\ UNCHANGED << params, pass, out, table, table_loads, loaded_before, selectors,
                    copies, constants, running_sum, shape_trace, outcome >>

\* Value<Vec<_>>::transpose_vec(length) of the result of compute_running_sum.
transpose_vec(val, x, n, k) ==
    IF IsKnown(val)
    THEN [j \in 1 .. Len(compute_running_sum(x, n, k).val) |->
             Known(compute_running_sum(x, n, k).val[j])]
    ELSE [j \in 1 .. (n \div k) |-> Unknown]

\* Step 2 of assign: z_i is written at offset, which starts at 0, the row of the copy.
RECURSIVE assign_running_sum(_, _, _, _)
assign_running_sum(cs, r, offset, zs) ==
    IF Len(zs) = 0 THEN cs
    ELSE assign_running_sum(Put(cs, << r, offset >>, Head(zs)), r, offset + 1, Tail(zs))

\* DecomposeConfig::assign(value, num_bits).  The cell constrained in step 4 is the
\* one z holds, the last cell assigned (the text names the loop variable z_i there).
DecomposeAssign ==
    /\ At("decompose")
    /\ LET r == Len(regions) + 1
           k == log2_ceil(lookup_range)
           v == CellValue(value_cell)
           count == num_bits \div k
           panics == IsKnown(v) /\ compute_running_sum(Eval(v), num_bits, k).panicked
           zs == transpose_vec(v, Eval(v), num_bits, k)
           copied == Put(cells, << r, 0 >>, v)
           z == IF count = 0 THEN << r, 0 >> ELSE << r, count - 1 >>
           opened == << << "region", "Decompose value", 0 >>,
                        << "copy", "running_sum", 0 >> >>
       IN
        /\ regions' = Append(regions, "Decompose value")
        /\ copies' = copies \cup {<< value_cell, << r, 0 >> >>}
        /\ loaded_before' = Append(loaded_before, table_loads)
        /\ IF panics
           THEN /\ cells' = copied
                /\ trace' = trace \o opened
                /\ outcome' = "panic"
                /\ UNCHANGED << running_sum, selectors, constants, pc >>
           ELSE /\ running_sum' = zs
                /\ cells' = assign_running_sum(copied, r, 0, zs)
                /\ selectors' = selectors \cup
                       {<< "q_decompose", r, row >> : row \in 0 .. (count - 1)}
                /\ constants' = constants \cup {<< z, 0 >>}
                /\ trace' = trace \o opened
                       \o [j \in 1 .. count |-> << "advice", "running_sum", j - 1 >>]
                       \o [j \in 1 .. count |-> << "selector", "q_decompose", j - 1 >>]
                       \o << << "constant", "running_sum", z[2] >> >>
                /\ pc' = pc + 1
                /\ UNCHANGED outcome
    /\ UNCHANGED << params, pass, out, table, table_loads, value_cell, shape_trace >>

\* RangeCheckConfig::assign(value, range) of ex2.
RangeCheckAssign(val, range) ==
    /\ loaded_before' = Append(loaded_before, table_loads)
    /\ IF range > lookup_range
       THEN /\ outcome' = "panic"
            /\ UNCHANGED << regions, cells, selectors, trace, pc >>
       ELSE LET r == Len(regions) + 1
                q == IF range < range_bound THEN "q_range_check" ELSE "q_lookup"
                name == IF range < range_bound THEN "Assign value"
                        ELSE "Assign value in lookup"
            IN /\ regions' = Append(regions, name)
               /\ selectors' = selectors \cup {<< q, r, 0 >>}
               /\ cells' = Put(cells, << r, 0 >>, val)
               /\ trace' = trace \o << << "region", name, 0 >>,
                                       << "selector", q, 0 >>,
                                       << "advice", "value", 0 >> >>
               /\ pc' = pc + 1
               /\ UNCHANGED outcome
    /\ UNCHANGED << params, pass, out, table, table_loads, copies, constants,
                    value_cell, running_sum, shape_trace >>

\* config.assign(.., self.value, RANGE)
AssignValue == At("assign_value") /\ RangeCheckAssign(Witness(value), range_bound)

\* config.assign(.., self.large_value, LOOKUP_RANGE)
AssignLargeValue ==
    At("assign_large") /\ RangeCheckAssign(Witness(large_value), lookup_range)

\* RangeCheckConfig::assign(value) of fibonacci/src/range_check/ex1.rs.
SmallAssign ==
    /\ At("assign_small")
    /\ LET r == Len(regions) + 1 IN
        /\ regions' = Append(regions, "Assign value")
        /\ selectors' = selectors \cup {<< "q_range_check", r, 0 >>}
        /\ cells' = Put(cells, << r, 0 >>, Witness(value))
        /\ trace' = trace \o << << "region", "Assign value", 0 >>,
                                << "selector", "q_range_check", 0 >>,
                                << "advice", "value", 0 >> >>
    /\ pc' = pc + 1
    /\ UNCHANGED << params, pass, out, table, table_loads, loaded_before, copies,
                    constants, value_cell, running_sum, shape_trace, outcome >>

\* One call of lebs2ip(bits).
Lebs2ipCall ==
    /\ At("lebs2ip")
    /\ out' = lebs2ip(bits)
    /\ IF lebs2ip(bits).panicked
       THEN outcome' = "panic" /\ pc' = pc
       ELSE outcome' = "running" /\ pc' = pc + 1
    /\ UNCHANGED << params, pass, table, table_loads, loaded_before, regions, cells,
                    selectors, copies, constants, value_cell, running_sum, trace,
                    shape_trace >>

\* synthesize returns Ok(()) in the shape pass: the floor planner runs it again
\* with the witness, on a fresh layout.
EndShapePass ==
    /\ outcome = "running" /\ pc = Len(program) + 1 /\ pass = "shape"
    /\ pass' = "witness"
    /\ shape_trace' = trace
    /\ pc' = 1
    /\ table' = EmptyFn /\ table_loads' = 0 /\ loaded_before' = << >>
    /\ regions' = << >> /\ cells' = EmptyFn /\ selectors' = {}
    /\ copies' = {} /\ constants' = {} /\ value_cell' = NoCell
    /\ running_sum' = << >> /\ trace' = << >>
    /\ UNCHANGED << params, out, outcome >>

\* synthesize returns Ok(()) in the witness pass.
EndWitnessPass ==
    /\ outcome = "running" /\ pc = Len(program) + 1 /\ pass = "witness"
    /\ outcome' = "ok"
    /\ UNCHANGED << params, pc, pass, out, table, table_loads, loaded_before, regions,
                    cells, selectors, copies, constants, value_cell, running_sum,
                    trace, shape_trace >>

Next ==
    \/ Load
    \/ LoadRangeTable
    \/ WitnessValue
    \/ DecomposeAssign
    \/ AssignValue
    \/ AssignLargeValue
    \/ SmallAssign
    \/ Lebs2ipCall
    \/ EndShapePass
    \/ EndWitnessPass

Spec == Init /\ [][Next]_vars

\* The same gadgets under a synthesize that calls them in another order.
SpecAnyOrder == InitAnyOrder /\ [][Next]_vars

\* ------------------------------------------------------------ verification
\* What MockProver::verify evaluates over the assigned circuit.
SelectorOn(q, c) == << q, c[1], c[2] >> \in selectors
TableValues == {table[o] : o \in DOMAIN table}
CellInt(c) == Eval(CellValue(c))

\* The permutation argument: both cells of every copy constraint hold one value.
CopiesHold == \A cc \in copies : CellInt(cc[1]) = CellInt(cc[2])

\* Every cell constrained to a constant holds it.
ConstantsHold == \A kc \in constants : CellInt(kc[1]) = kc[2]

\* The lookup registered by DecomposeConfig::configure, at the row of cell c.
DecomposeLookupHolds(c) ==
    DecomposeLookupInput(SelectorOn("q_decompose", c), CellInt(c),
                         CellInt(<< c[1], c[2] + 1 >>), log2_ceil(lookup_range))
        \in TableValues

\* The lookup registered by RangeCheckConfig::configure (ex2), at the row of cell c.
RangeCheckLookupHolds(c) ==
    RangeCheckLookupInput(SelectorOn("q_lookup", c), CellInt(c)) \in TableValues

\* The "Range check" gate at the row of cell c.
RangeCheckGateAt(c) ==
    RangeCheckGate(SelectorOn("q_range_check", c), range_bound, CellInt(c))

\* ------------------------------------------------------------ claims
K == log2_ceil(lookup_range)
DecomposeWitnessed == circuit = "decompose" /\ pass = "witness"
DecomposeDone == DecomposeWitnessed /\ outcome = "ok"

\* C1: for every v in [0, 2^N), N a positive multiple of K, the decomposition circuit
\* (table loaded, v witnessed, assign(v, N) run) satisfies every constraint it emits:
\* the copy constraint at row 0, the limb lookup on every enabled row, and z_C = 0.
C1_DecomposeSatisfied ==
    (DecomposeDone /\ num_bits > 0 /\ num_bits % K = 0 /\ value < Pow2(num_bits))
        => /\ CopiesHold
           /\ \A c \in DOMAIN cells :
                  SelectorOn("q_decompose", c) => DecomposeLookupHolds(c)
           /\ ConstantsHold

\* C2: for every v >= 2^N the terminal running-sum value z_C computed in C = N/K
\* steps is nonzero, so the constraint pinning the final cell to zero is violated.
C2_TooWideRejected ==
    (DecomposeWitnessed /\ num_bits % K = 0 /\ value >= Pow2(num_bits))
        => /\ outcome # "panic"
           /\ outcome = "ok" =>
                 /\ Len(running_sum) = num_bits \div K
                 /\ num_bits > 0 => Eval(running_sum[Len(running_sum)]) # 0
                 /\ ~ConstantsHold

C2_Witness ==
    DecomposeDone /\ lookup_range = 4 /\ num_bits = 4 /\ value = 16
        /\ Len(running_sum) = 2 /\ running_sum[2] = Known(1)

\* z_0 .. z_C of the finished decomposition, and its limbs c_i = z_i - z_{i+1} * 2^K.
Z(i) == IF i = 0 THEN value ELSE Eval(running_sum[i])
Limb(i) == FSub(Z(i), FMul(Z(i + 1), Pow2(K) % P))
RECURSIVE LimbSum(_)
LimbSum(n) == IF n = 0 THEN 0 ELSE LimbSum(n - 1) + Limb(n - 1) * Pow2((n - 1) * K)

\* C3: for v in [0, 2^N) and K dividing N, compute_running_sum returns exactly
\* C = N/K values; every limb c_i is in [0, 2^K), the limbs sum to v with weights
\* 2^(i*K), z_i = z_{i+1} * 2^K + c_i for every i, and z_C is zero.
C3_RunningSumCorrect ==
    (DecomposeWitnessed /\ num_bits % K = 0 /\ value < Pow2(num_bits))
        => /\ outcome # "panic"
           /\ outcome = "ok" =>
                 /\ Len(running_sum) = num_bits \div K
                 /\ \A i \in 0 .. (Len(running_sum) - 1) :
                        /\ Limb(i) \in 0 .. (Pow2(K) - 1)
                        /\ Limb(i) = (value \div Pow2(i * K)) % Pow2(K)
                        /\ Z(i) = FAdd(FMul(Z(i + 1), Pow2(K) % P), Limb(i))
                 /\ LimbSum(Len(running_sum)) = value
                 /\ Z(Len(running_sum)) = 0

C3_Witness ==
    DecomposeDone /\ lookup_range = 4 /\ num_bits = 4 /\ value = 13
        /\ running_sum = << Known(3), Known(0) >>

Lebs2ipCalled == circuit = "lebs2ip" /\ (pc = 2 \/ outcome = "panic")

\* The integer of a u64 below 2^n, and of a bit sequence, least significant first.
RECURSIVE IntOfBits(_, _)
IntOfBits(w, n) == IF n = 0 THEN 0
                   ELSE IntOfBits(w, n - 1) + (IF w[n] THEN Pow2(n - 1) ELSE 0)
\* The L low little-endian bits of x.
LowBits(x, len) == [j \in 1 .. len |-> (x \div Pow2(j - 1)) % 2 = 1]

\* C4: for every bit sequence of length L <= 64, lebs2ip(bits) is the sum of 2^i over
\* the positions i where bits[i] is true, and its L low little-endian bits are bits
\* again; for every x in [0, 2^L), lebs2ip of the L low bits of x is x; a sequence
\* longer than 64 bits is rejected by the assertion.
C4_Lebs2ipRoundTrip ==
    Lebs2ipCalled =>
        /\ Len(bits) > U64Bits => (outcome = "panic" /\ out.panicked)
        /\ Len(bits) <= U64Bits =>
              /\ outcome # "panic" /\ ~out.panicked
              /\ \A j \in 1 .. U64Bits : out.val[j] = (j <= Len(bits) /\ bits[j])
        /\ Len(bits) <= MaxBitsLen =>
              /\ IntOfBits(out.val, MaxBitsLen) = IntOfBits(bits, Len(bits))
              /\ LowBits(IntOfBits(out.val, MaxBitsLen), Len(bits)) = bits
              /\ \A x \in 0 .. (Pow2(Len(bits)) - 1) :
                     LowBits(x, Len(bits)) = bits => IntOfBits(out.val, MaxBitsLen) = x

C4_Witness ==
    /\ Lebs2ipCalled /\ Len(bits) = U64Bits /\ \A j \in 1 .. U64Bits : bits[j]
    /\ ~out.panicked /\ \A j \in 1 .. U64Bits : out.val[j]

RangeGadgetRun == circuit \in {"small", "range_check"} /\ pass = "witness"

\* The claim of C5 as stated, for every bound R, R = 0 included.
C5_GateIffInRangeAnyBound ==
    RangeGadgetRun => \A c \in DOMAIN cells :
        /\ SelectorOn("q_range_check", c) =>
              (RangeCheckGateAt(c) = 0 <=> CellInt(c) \in 0 .. (range_bound - 1))
        /\ ~SelectorOn("q_range_check", c) => RangeCheckGateAt(c) = 0

\* C5: for every bound R >= 1 and every field element v, on a row where
\* q_range_check is enabled the "Range check" gate is zero if and only if v is in
\* {0..R-1}; on a row where it is not enabled the gate is zero for every v.
C5_GateIffInRange ==
    RangeGadgetRun => \A c \in DOMAIN cells :
        /\ (SelectorOn("q_range_check", c) /\ range_bound >= 1) =>
              (RangeCheckGateAt(c) = 0 <=> CellInt(c) \in 0 .. (range_bound - 1))
        /\ ~SelectorOn("q_range_check", c) => RangeCheckGateAt(c) = 0

C5_Witness ==
    /\ circuit = "small" /\ pass = "witness" /\ outcome = "ok"
    /\ range_bound = 3 /\ value = 3
    /\ \E c \in DOMAIN cells : SelectorOn("q_range_check", c) /\ RangeCheckGateAt(c) # 0

\* C6: with the table loaded for LOOKUP_RANGE, the lookup of RangeCheckConfig (ex2) on
\* a row where q_lookup is enabled is satisfied if and only if the canonical integer
\* of v lies in [0, LOOKUP_RANGE).
C6_LookupIffInRange ==
    (circuit = "range_check" /\ pass = "witness" /\ table_loads = 1) =>
        \A c \in DOMAIN cells :
            SelectorOn("q_lookup", c) =>
                (RangeCheckLookupHolds(c) <=> CellInt(c) \in 0 .. (lookup_range - 1))

TableSquares(range) == [i \in 0 .. (range - 1) |-> i * i]

DecomposeCalled == circuit = "decompose" /\ Len(loaded_before) >= 1

\* C8: whenever num_bits is zero or not a multiple of K, assign fails, in the shape
\* pass as well as in the witness pass, and emits no running-sum row, no selector and
\* no terminal constraint.
C8_InvalidWidthRejected ==
    (DecomposeCalled /\ (num_bits = 0 \/ num_bits % K # 0))
        => /\ outcome = "panic"
           /\ running_sum = << >>
           /\ selectors = {}
           /\ constants = {}

\* synthesize has run to its end without failing.
Completed == pc = Len(program) + 1 /\ outcome \in {"running", "ok"}

IsPrefix(s, t) == Len(s) <= Len(t) /\ SubSeq(t, 1, Len(s)) = s

\* C10: the witness pass of a gadget's assign has the outcome of the shape pass and
\* performs the same structural operations in the same order.
C10_SameControlFlow ==
    (pass = "witness" /\ circuit # "lebs2ip") =>
        /\ IsPrefix(trace, shape_trace)
        /\ outcome # "running" => (outcome = "ok" /\ trace = shape_trace)

\* The advice cell at row 0 of the r-th region opened in this pass.
RegionCell(r) == << r, 0 >>

\* The range/lookup assigns of ex2, called with a range that passes the assertion.
RangeCheckNeverFails ==
    (circuit = "range_check" /\ range_bound <= lookup_range) =>
        /\ outcome # "panic"
        /\ pc > 2 => CellValue(RegionCell(1)) = Known(value)
        /\ pc > 3 => CellValue(RegionCell(2)) = Known(large_value)

\* SmallRangeCheck's assign.
SmallNeverFails ==
    circuit = "small" =>
        /\ outcome # "panic"
        /\ pc > 1 => CellValue(RegionCell(1)) = Known(value)

\* The decomposition assign with N a positive multiple of K: the running-sum cell
\* of row 0 is the one v is copied to.
DecomposeNeverFails ==
    (circuit = "decompose" /\ num_bits > 0 /\ num_bits % K = 0) =>
        /\ outcome # "panic"
        /\ pc > 3 => CellValue(RegionCell(2)) = Known(value)

\* C11: for every field element v, in range or not, the assign of SmallRangeCheck,
\* the range/lookup assign of ex2 (range <= LOOKUP_RANGE) and the decomposition
\* assign (N a positive multiple of K) return without panicking and leave v in the
\* cell they assign, unchanged.
C11_AssignNeverFails ==
    pass = "witness" =>
        /\ SmallNeverFails
        /\ RangeCheckNeverFails
        /\ DecomposeNeverFails

\* The rows of the running-sum column written (copied or assigned) in the
\* "Decompose value" region of this pass, in the order of the writes.
RECURSIVE RowsWritten(_, _)
RowsWritten(t, inside) ==
    IF Len(t) = 0 THEN << >>
    ELSE IF Head(t)[1] = "region"
         THEN RowsWritten(Tail(t), Head(t)[2] = "Decompose value")
    ELSE IF inside /\ Head(t)[1] \in {"copy", "advice"}
         THEN << Head(t)[3] >> \o RowsWritten(Tail(t), inside)
    ELSE RowsWritten(Tail(t), inside)

\* C12: for N = C*K (C >= 1) DecomposeConfig::assign writes the rows 0..C of the
\* running-sum column once each and in increasing order; row 0 holds z_0 = v, copied
\* from the input cell, row i+1 holds z_{i+1}; q_decompose is on for the rows 0..C-1,
\* where the lookup input is the limb c_i; and the cell pinned to zero holds z_C.
C12_RowLayout ==
    (DecomposeDone /\ num_bits > 0 /\ num_bits % K = 0) =>
        LET count == num_bits \div K
            r == Len(regions)
        IN /\ RowsWritten(trace, FALSE) = [j \in 1 .. (count + 1) |-> j - 1]
           /\ CellValue(<< r, 0 >>) = Known(value)
           /\ copies = {<< value_cell, << r, 0 >> >>}
           /\ \A i \in 0 .. (count - 1) :
                  /\ CellValue(<< r, i + 1 >>) = running_sum[i + 1]
                  /\ SelectorOn("q_decompose", << r, i >>)
                  /\ DecomposeLookupInput(SelectorOn("q_decompose", << r, i >>),
                                          CellInt(<< r, i >>), CellInt(<< r, i + 1 >>), K)
                         = Limb(i)
           /\ ~SelectorOn("q_decompose", << r, count >>)
           /\ constants = {<< << r, count >>, 0 >>}
           /\ CellValue(<< r, count >>) = running_sum[count]

\* What the code does lay out: the copy and z_1 both land on row 0, z_{i+1} on row i,
\* and the cell pinned to zero is row C-1, which holds z_C.
C12_RowsAsCoded ==
    (DecomposeDone /\ num_bits > 0 /\ num_bits % K = 0) =>
        LET count == num_bits \div K
            r == Len(regions)
        IN /\ RowsWritten(trace, FALSE) = << 0 >> \o [j \in 1 .. count |-> j - 1]
           /\ \A i \in 0 .. (count - 1) : CellValue(<< r, i >>) = running_sum[i + 1]
           /\ << r, count >> \notin DOMAIN cells
           /\ constants = {<< << r, count - 1 >>, 0 >>}

\* The values a row of the running-sum column can hold in this pass: those of the
\* assigned cells, and 0 for a row that was never assigned.
ColumnValues == {CellInt(c) : c \in DOMAIN cells} \cup {0}

\* The values RangeCheckTable::load writes for the same LOOKUP_RANGE.
SquareTableValues ==
    {load_rows(lookup_range)[j][2] : j \in 1 .. Len(load_rows(lookup_range))}

\* C13: on every row where q_decompose is 0 the lookup input of the decomposition is
\* 0 for every pair (z_curr, z_next) of running-sum values, whichever rows the floor
\* planner puts next to each other, and 0 is a row of the loaded table, so the lookup
\* holds there; on every row where q_decompose is 1 the input is
\* z_curr - z_next * 2^K in the field, with K = log2_ceil(LOOKUP_RANGE).
C13_InactiveRowsPass ==
    (DecomposeWitnessed /\ table_loads >= 1) =>
        /\ 0 \in TableValues
        /\ 0 \in SquareTableValues
        /\ Pow2(K) >= lookup_range /\ Pow2(K - 1) < lookup_range
        /\ \A zc \in ColumnValues : \A zn \in ColumnValues :
               DecomposeLookupInput(FALSE, zc, zn, K) = 0
        /\ \A c \in DOMAIN cells :
               LET zc == CellInt(c)
                   zn == CellInt(<< c[1], c[2] + 1 >>)
                   input == DecomposeLookupInput(SelectorOn("q_decompose", c), zc, zn, K)
               IN IF SelectorOn("q_decompose", c)
                  THEN input = (zc - zn * Pow2(K)) % P
                  ELSE input = 0 /\ DecomposeLookupHolds(c)

\* An inactive row whose operands are not zero and not in the table passes the lookup.
C13_Witness ==
    /\ DecomposeDone /\ lookup_range = 2 /\ num_bits = 2 /\ value = 5
    /\ ~SelectorOn("q_decompose", value_cell) /\ CellInt(value_cell) = 5
    /\ 5 \notin TableValues /\ DecomposeLookupHolds(value_cell)
    /\ \E c \in DOMAIN cells : SelectorOn("q_decompose", c)

\* The selectors of ex2 enabled at row 0 of the r-th region.
SelectorsAt(r) ==
    {q \in {"q_range_check", "q_lookup"} : SelectorOn(q, RegionCell(r))}

\* Every call of assign that passed the assertion opened one region, wrote row 0 and
\* enabled exactly one selector there; a call with range > LOOKUP_RANGE panicked
\* before opening a region.
OneRegionOneSelector ==
    /\ Len(regions) = Len(loaded_before) - (IF outcome = "panic" THEN 1 ELSE 0)
    /\ DOMAIN cells = {RegionCell(r) : r \in 1 .. Len(regions)}
    /\ \A r \in 1 .. Len(regions) : Cardinality(SelectorsAt(r)) = 1
    /\ \A s \in selectors : s[2] \in 1 .. Len(regions) /\ s[3] = 0
    /\ (Len(loaded_before) >= 1 /\ range_bound > lookup_range)
           => (outcome = "panic" /\ regions = << >> /\ selectors = {})
    /\ outcome = "panic" => range_bound > lookup_range

\* C14: in the test circuit of ex2 each assign(value, range) with
\* range <= LOOKUP_RANGE opens one region, writes row 0 and enables exactly one
\* selector; the value assigned with range = RANGE gets q_range_check and not
\* q_lookup, the large value assigned with range = LOOKUP_RANGE gets q_lookup and not
\* q_range_check; a call with range > LOOKUP_RANGE panics before opening a region.
C14_PathSelection ==
    circuit = "range_check" =>
        /\ OneRegionOneSelector
        /\ Len(regions) >= 1 => SelectorsAt(1) = {"q_range_check"}
        /\ Len(regions) >= 2 => SelectorsAt(2) = {"q_lookup"}

\* The paths the code takes: range < RANGE is false for range = RANGE, so the value
\* assigned with range = RANGE goes the lookup way as well.
C14_PathAsCoded ==
    circuit = "range_check" =>
        /\ OneRegionOneSelector
        /\ Len(regions) >= 1 => SelectorsAt(1) = {"q_lookup"}
        /\ Len(regions) >= 2 =>
               SelectorsAt(2) = IF lookup_range < range_bound THEN {"q_range_check"}
                                ELSE {"q_lookup"}

====
